---- MODULE Spec2Model ----
(***************************************************************************)
(* Interactive cubic Bezier curve with spring physics (src/bezier.js).     *)
(*                                                                         *)
(* Numbers.  JavaScript numbers are modelled in fixed point:               *)
(*   lengths (position, target)  in micro-pixels        (Unit per pixel)   *)
(*   velocities, accelerations   in micro-pixels/second                    *)
(*   stiffness, damping          in hundredths          (CoefDen)          *)
(*   dt                          in 1/3000 second       (DtDen), so that   *)
(*                               1/60 s = 50, 1/30 s = 100, 1 ms = 3       *)
(*   Bezier weights              in millionths          (WeightDen)        *)
(*   unit vectors                in thousandths         (DirDen)           *)
(* Every product with a fraction rounds to the nearest unit, as a double   *)
(* rounds to the nearest representable value.                              *)
(***************************************************************************)
EXTENDS Integers, Sequences, FiniteSets, TLC

VARIABLES
    points,     \* BezierCurve.points: 0..3 -> ControlPoint (p0, p1, p2, p3)
    dragged,    \* BezierApp.dragged: index of the dragged point, or null
    mode,       \* BezierApp.mode: "mouse" or "motion"
    mousePos,   \* BezierApp.mousePos
    lastTime,   \* BezierApp.lastTime, in ms
    physics,    \* BezierApp.physics: [stiffness, damping]
    curve,      \* BezierCurve.curve: the sampled polyline
    tangents,   \* BezierCurve.tangents: the tangent markers
    canvas,     \* what the last draw() put on the canvas
    frame,      \* what the last loop() call saw: its number, timestamps, dt
    events,     \* number of events handled so far, mode switches aside
    pt,         \* a single ControlPoint under repeated applyPhysics
    args,       \* the [stiffness, damping, dt] it is stepped with
    steps,      \* number of applyPhysics calls made on pt
    nearest     \* the smallest distance from pt to its target seen so far

appVars == <<points, dragged, mode, mousePos, lastTime, physics, curve,
             tangents, canvas, frame, events>>
ptVars == <<pt, args, steps, nearest>>
vars == <<points, dragged, mode, mousePos, lastTime, physics, curve,
          tangents, canvas, frame, events, pt, args, steps, nearest>>

----------------------------------------------------------------------------
(* Units *)

Unit == 1000000
CoefDen == 100
DtDen == 3000
WeightDen == 1000000
DirDen == 1000

(* Bounds of the exploration *)
MaxEvents == 3
MaxSteps == 600
MaxConvergeSteps == 6000

----------------------------------------------------------------------------
(* Fixed-point arithmetic *)

Abs(a) == IF a < 0 THEN -a ELSE a

Sign(a) == IF a < 0 THEN -1 ELSE 1

Min(a, b) == IF a < b THEN a ELSE b

Max(a, b) == IF a > b THEN a ELSE b

\* a * n / d rounded to nearest (half away from zero), for 0 < d <= 10000,
\* computed without leaving 32 bits: |a| = q*d + r, |a|*|n|/d = q*|n| + r*|n|/d.
MulDiv(a, n, d) ==
    LET m == Abs(a)
        k == Abs(n)
        q == m \div d
        r == m % d
    IN Sign(a) * Sign(n) * (q * k + (2 * r * k + d) \div (2 * d))

\* a * n / 1000000 rounded to nearest, for 0 <= n <= 1000000: both a's remainder
\* and n are split in thousands so that no product leaves 32 bits.
MulMillionth(a, n) ==
    LET m == Abs(a)
        q == m \div 1000000
        r == m % 1000000
        r1 == r \div 1000
        r0 == r % 1000
        n1 == n \div 1000
        n0 == n % 1000
    IN Sign(a) * (q * n + r1 * n1
                  + ((r1 * n0 + r0 * n1) * 1000 + r0 * n0 + 500000) \div 1000000)

RECURSIVE IsqrtFrom(_, _)
\* Newton's iteration downwards from an over-estimate r of sqrt(n).
IsqrtFrom(n, r) ==
    LET s == (r + n \div r) \div 2
    IN IF s >= r THEN r ELSE IsqrtFrom(n, s)

\* floor(sqrt(n)), 0 <= n < 2^31
Isqrt(n) == IF n = 0 THEN 0 ELSE IsqrtFrom(n, Min(n, 46340))

----------------------------------------------------------------------------
(* class Vector2 *)

Vector2(x, y) == [x |-> x, y |-> y]

add(u, v) == Vector2(u.x + v.x, u.y + v.y)

subtract(u, v) == Vector2(u.x - v.x, u.y - v.y)

\* multiply(s) with s = n/d
multiply(v, n, d) ==
    IF d = WeightDen THEN Vector2(MulMillionth(v.x, n), MulMillionth(v.y, n))
    ELSE Vector2(MulDiv(v.x, n, d), MulDiv(v.y, n, d))

\* The components are brought below 2^15 before squaring; s is the scale removed.
Shrink(v) == (Max(Abs(v.x), Abs(v.y)) \div 32768) + 1

length(v) ==
    LET s == Shrink(v)
        xs == Abs(v.x) \div s
        ys == Abs(v.y) \div s
    IN Isqrt(xs * xs + ys * ys) * s

\* A unit vector, in thousandths; (0,0) for the zero vector.
normalize(v) ==
    LET s == Shrink(v)
        xs == Sign(v.x) * (Abs(v.x) \div s)
        ys == Sign(v.y) * (Abs(v.y) \div s)
        len == Isqrt(xs * xs + ys * ys)
    IN IF len = 0 THEN Vector2(0, 0)
       ELSE Vector2(MulDiv(xs * DirDen, 1, len), MulDiv(ys * DirDen, 1, len))

distanceTo(u, v) == length(subtract(u, v))

----------------------------------------------------------------------------
(* class ControlPoint *)

radius == 10

VelocityDecay == 99

ControlPoint(x, y, fixed) ==
    [position |-> Vector2(x, y), velocity |-> Vector2(0, 0),
     target |-> Vector2(x, y), isFixed |-> fixed, isDragging |-> FALSE]

\* Faulty variant of suspended: a dragged point is integrated all the same.
suspendedWhenFixed(cp) == cp.isFixed

\* applyPhysics returns at once for a fixed or a dragged point
suspended(cp) == cp.isFixed \/ cp.isDragging

\* Faulty variant of springForce: the position is not subtracted from the target.
springForceOfTarget(cp, stiffness) == multiply(cp.target, stiffness, CoefDen)

springForce(cp, stiffness) ==
    multiply(subtract(cp.target, cp.position), stiffness, CoefDen)

\* Faulty variant of dampingForce: the force pushes along the velocity.
dampingForceAlong(cp, damping) == multiply(cp.velocity, damping, CoefDen)

dampingForce(cp, damping) == multiply(cp.velocity, -damping, CoefDen)

applyPhysics(cp, stiffness, damping, dt) ==
    IF suspended(cp) THEN cp
    ELSE
        LET acceleration == add(springForce(cp, stiffness), dampingForce(cp, damping))
            v1 == add(cp.velocity, multiply(acceleration, dt, DtDen))
            p1 == add(cp.position, multiply(v1, dt, DtDen))
        IN [cp EXCEPT !.velocity = multiply(v1, VelocityDecay, CoefDen),
                      !.position = p1]

contains(cp, point) == distanceTo(cp.position, point) <= radius * Unit

----------------------------------------------------------------------------
(* class BezierCurve *)

segments == 100

\* calculatePoint(t) at t = i/segments; the weights are in millionths
\* (segments^3 = WeightDen).
calculatePoint(ps, i) ==
    LET t == i
        u == segments - i
        tt == t * t
        uu == u * u
        uuu == uu * u
        ttt == tt * t
        p0 == multiply(ps[0].position, uuu, WeightDen)
        p1 == multiply(ps[1].position, 3 * uu * t, WeightDen)
        p2 == multiply(ps[2].position, 3 * u * tt, WeightDen)
        p3 == multiply(ps[3].position, ttt, WeightDen)
    IN add(add(add(p0, p1), p2), p3)

\* A difference of positions in milli-pixels: three times a difference of
\* positions in micro-pixels does not fit 32 bits.
Milli(v) == multiply(v, 1, 1000)

\* calculateTangent(t) at t = i/segments, in milli-pixels per unit of t; the
\* weights are in ten-thousandths (segments^2).
calculateTangent(ps, i) ==
    LET t == i
        u == segments - i
        p0 == ps[0].position
        p1 == ps[1].position
        p2 == ps[2].position
        p3 == ps[3].position
        term1 == multiply(Milli(subtract(p1, p0)), 3 * u * u, segments * segments)
        term2 == multiply(Milli(subtract(p2, p1)), 6 * u * t, segments * segments)
        term3 == multiply(Milli(subtract(p3, p2)), 3 * t * t, segments * segments)
    IN add(add(term1, term2), term3)

\* update(): the new curve, one point per i in 0..segments
updateCurve(ps) == [k \in 1..(segments + 1) |-> calculatePoint(ps, k - 1)]

\* update(): the new tangents, one marker per i in 0..segments with i % 10 = 0
updateTangents(ps) ==
    LET all == [k \in 1..(segments + 1) |-> k - 1]
        marked == SelectSeq(all, LAMBDA i : i % 10 = 0)
    IN [k \in 1..Len(marked) |->
            [point |-> calculatePoint(ps, marked[k]),
             vector |-> normalize(calculateTangent(ps, marked[k]))]]

\* BezierCurve.draw(ctx): the control polygon and handles, the polyline, the arrows
drawCurve(ps, crv, tans) ==
    [handles |-> [i \in 0..3 |-> [position |-> ps[i].position,
                                  isDragging |-> ps[i].isDragging]],
     polyline |-> crv,
     arrows |-> tans]

----------------------------------------------------------------------------
(* class BezierApp *)

width == 800

height == 500

null == -1

margin == 50

sens == 8

\* A length in pixels, in micro-pixels
Px(n) == n * Unit

\* new Vector2(x, y) of whole pixels
Pixel(x, y) == Vector2(Px(x), Px(y))

\* constructor: the four control points, p0 and p3 fixed
InitialPoints ==
    [i \in 0..3 |->
        CASE i = 0 -> ControlPoint(MulDiv(Px(width), 2, 10), MulDiv(Px(height), 5, 10), TRUE)
          [] i = 1 -> ControlPoint(MulDiv(Px(width), 4, 10), MulDiv(Px(height), 3, 10), FALSE)
          [] i = 2 -> ControlPoint(MulDiv(Px(width), 6, 10), MulDiv(Px(height), 7, 10), FALSE)
          [] i = 3 -> ControlPoint(MulDiv(Px(width), 8, 10), MulDiv(Px(height), 5, 10), TRUE)]

\* Faulty variant of clamp: the upper bound (Math.min) is left out.
clampFromBelow(v) == Vector2(Max(Px(margin), v.x), Max(Px(margin), v.y))

\* Math.max(margin, Math.min(., dimension - margin)) on both axes
clamp(v) ==
    Vector2(Max(Px(margin), Min(v.x, Px(width) - Px(margin))),
            Max(Px(margin), Min(v.y, Px(height) - Px(margin))))

clampTargets(ps) ==
    [ps EXCEPT ![1].target = clamp(ps[1].target),
               ![2].target = clamp(ps[2].target)]

\* e.rotationRate.beta || 0: a missing (or NaN) rate reads as 0
OrZero(rate) == IF rate.defined THEN rate.value ELSE 0

\* handleMotion(e); e.rotationRate is <<>> when the event carries none
handleMotion(ps, md, rotationRate) ==
    IF md # "motion" THEN ps
    ELSE IF rotationRate = <<>> THEN ps
    ELSE
        LET beta == OrZero(rotationRate[1])
            gamma == OrZero(rotationRate[2])
            moved == [ps EXCEPT
                ![1].target = Vector2(ps[1].target.x + gamma * sens * Unit,
                                      ps[1].target.y + beta * sens * Unit),
                ![2].target = Vector2(ps[2].target.x - MulDiv(gamma * sens * Unit, 7, 10),
                                      ps[2].target.y - MulDiv(beta * sens * Unit, 7, 10))]
        IN clampTargets(moved)

\* Faulty variant of HitPoints: a fixed point can be picked up.
HitAnyPoint(ps, pos) == {i \in 0..3 : contains(ps[i], pos)}

\* mouseDown: the first point, in order, that is not fixed and contains pos
HitPoints(ps, pos) == {i \in 0..3 : ~ps[i].isFixed /\ contains(ps[i], pos)}

FirstOf(S) == CHOOSE i \in S : \A j \in S : i <= j

\* mouseMove, no point dragged, mouse mode: the targets follow the pointer
steerTargets(ps, pos) ==
    LET center == Vector2(Px(width) \div 2, Px(height) \div 2)
        offset == multiply(subtract(pos, center), 5, 1000)
        steered == [ps EXCEPT
            ![1].target = Vector2(MulDiv(Px(width), 4, 10) + offset.x * 200,
                                  MulDiv(Px(height), 3, 10) + offset.y * 200),
            ![2].target = Vector2(MulDiv(Px(width), 6, 10) - offset.x * 150,
                                  MulDiv(Px(height), 7, 10) - offset.y * 150)]
    IN clampTargets(steered)

\* mouseMove, a point dragged: the point is put under the pointer
dragTo(ps, d, pos) ==
    [ps EXCEPT ![d].position = pos, ![d].target = pos, ![d].velocity = Vector2(0, 0)]

resetPoints(ps) ==
    LET w == Px(width)
        h == Px(height)
        q1 == Vector2(MulDiv(w, 4, 10), MulDiv(h, 3, 10))
        q2 == Vector2(MulDiv(w, 6, 10), MulDiv(h, 7, 10))
    IN [ps EXCEPT ![1].position = q1, ![1].target = q1, ![1].velocity = Vector2(0, 0),
                  ![2].position = q2, ![2].target = q2, ![2].velocity = Vector2(0, 0)]

updatePhysics(ps, ph, dt) ==
    [ps EXCEPT ![0] = applyPhysics(ps[0], ph.stiffness, ph.damping, dt),
               ![1] = applyPhysics(ps[1], ph.stiffness, ph.damping, dt),
               ![2] = applyPhysics(ps[2], ph.stiffness, ph.damping, dt),
               ![3] = applyPhysics(ps[3], ph.stiffness, ph.damping, dt)]

\* loop: dt in 1/3000 s from timestamps in ms; 1/60 s on the first frame
frameDt(last, timestamp) == IF last = 0 THEN DtDen \div 60 ELSE (timestamp - last) * 3

stableDt(dt) == Min(dt, DtDen \div 30)

----------------------------------------------------------------------------
(* Events the application is driven with *)

\* Pointer positions: on p0, on p1's and p2's first places, in a corner
MousePositions == {Pixel(160, 250), Pixel(320, 150), Pixel(480, 350), Pixel(790, 20)}

Rate(v) == [defined |-> TRUE, value |-> v]

Missing == [defined |-> FALSE, value |-> 0]

\* e.rotationRate of a devicemotion event, in degrees per second
RotationRates == {<<>>, <<Missing, Rate(3)>>, <<Rate(-150), Rate(150)>>}

\* Slider values, in hundredths
StiffnessValues == {30}

DampingValues == {0}

\* Timestamp of the first frame, in ms
FirstTimestamps == {0, 16}

\* Time from one frame's timestamp to the next, in ms
FrameDeltas == {10, 100}

\* The timestamps the next frame can come with
NextTimestamps(count, last) ==
    IF count = 0 THEN FirstTimestamps ELSE {last + d : d \in FrameDeltas}

----------------------------------------------------------------------------
(* The application as a state machine: one action per event handler *)

NoCanvas == [handles |-> <<>>, polyline |-> <<>>, arrows |-> <<>>]

NoFrame == [count |-> 0, previous |-> 0, timestamp |-> 0, dt |-> 0]

RestPoint == ControlPoint(0, 0, FALSE)

RestArgs == [stiffness |-> 0, damping |-> 0, dt |-> 0]

InitApp ==
    /\ points = InitialPoints
    /\ dragged = null
    /\ mode = "mouse"
    /\ mousePos = Vector2(Px(width) \div 2, Px(height) \div 2)
    /\ lastTime = 0
    /\ physics = [stiffness |-> 8, damping |-> 92]
    /\ curve = <<>>
    /\ tangents = <<>>
    /\ canvas = NoCanvas
    /\ frame = NoFrame
    /\ events = 0

Init ==
    /\ InitApp
    /\ pt = RestPoint
    /\ args = RestArgs
    /\ steps = 0
    /\ nearest = 0

Handled ==
    /\ events < MaxEvents
    /\ events' = events + 1
    /\ UNCHANGED ptVars

MouseDown ==
    \E pos \in MousePositions :
        LET hit == HitPoints(points, pos)
        IN /\ Handled
           /\ IF hit = {}
              THEN UNCHANGED <<points, dragged>>
              ELSE /\ dragged' = FirstOf(hit)
                   /\ points' = [points EXCEPT ![FirstOf(hit)].isDragging = TRUE]
           /\ UNCHANGED <<mode, mousePos, lastTime, physics, curve, tangents, canvas, frame>>

MouseMoveTo(pos) ==
    /\ Handled
    /\ mousePos' = pos
    /\ points' = IF dragged # null THEN dragTo(points, dragged, pos)
                  ELSE IF mode = "mouse" THEN steerTargets(points, pos)
                  ELSE points
    /\ UNCHANGED <<dragged, mode, lastTime, physics, curve, tangents, canvas, frame>>

MouseMove == \E pos \in MousePositions : MouseMoveTo(pos)

MouseUp ==
    /\ Handled
    /\ IF dragged # null
       THEN /\ points' = [points EXCEPT ![dragged].isDragging = FALSE]
            /\ dragged' = null
       ELSE UNCHANGED <<points, dragged>>
    /\ UNCHANGED <<mode, mousePos, lastTime, physics, curve, tangents, canvas, frame>>

DeviceMotionWith(rotationRate) ==
    /\ Handled
    /\ points' = handleMotion(points, mode, rotationRate)
    /\ UNCHANGED <<dragged, mode, mousePos, lastTime, physics, curve, tangents,
                   canvas, frame>>

DeviceMotion == \E rotationRate \in RotationRates : DeviceMotionWith(rotationRate)

\* The mode has two values: switching it is not counted against MaxEvents.
SwitchMode ==
    /\ mode' = IF mode = "mouse" THEN "motion" ELSE "mouse"
    /\ UNCHANGED <<points, dragged, mousePos, lastTime, physics, curve, tangents,
                   canvas, frame, events>>
    /\ UNCHANGED ptVars

Reset ==
    /\ Handled
    /\ points' = resetPoints(points)
    /\ dragged' = null
    /\ UNCHANGED <<mode, mousePos, lastTime, physics, curve, tangents, canvas, frame>>

SetStiffness ==
    \E v \in StiffnessValues :
        /\ Handled
        /\ physics' = [physics EXCEPT !.stiffness = v]
        /\ UNCHANGED <<points, dragged, mode, mousePos, lastTime, curve, tangents,
                       canvas, frame>>

SetDamping ==
    \E v \in DampingValues :
        /\ Handled
        /\ physics' = [physics EXCEPT !.damping = v]
        /\ UNCHANGED <<points, dragged, mode, mousePos, lastTime, curve, tangents,
                       canvas, frame>>

\* Faulty variant of loop: the curve is resampled before the physics update.
loopResampleFirst(timestamp) ==
    LET dt == stableDt(frameDt(lastTime, timestamp))
    IN /\ lastTime' = timestamp
       /\ curve' = updateCurve(points)
       /\ tangents' = updateTangents(points)
       /\ points' = updatePhysics(points, physics, dt)
       /\ canvas' = drawCurve(points', curve', tangents')
       /\ frame' = [count |-> frame.count + 1, previous |-> lastTime,
                    timestamp |-> timestamp, dt |-> dt]

\* loop(timestamp): physics, then resample, then draw
loop(timestamp) ==
    LET dt == stableDt(frameDt(lastTime, timestamp))
    IN /\ lastTime' = timestamp
       /\ points' = updatePhysics(points, physics, dt)
       /\ curve' = updateCurve(points')
       /\ tangents' = updateTangents(points')
       /\ canvas' = drawCurve(points', curve', tangents')
       /\ frame' = [count |-> frame.count + 1, previous |-> lastTime,
                    timestamp |-> timestamp, dt |-> dt]

Loop ==
    \E timestamp \in NextTimestamps(frame.count, lastTime) :
        /\ Handled
        /\ loop(timestamp)
        /\ UNCHANGED <<dragged, mode, mousePos, physics>>

Next ==
    \/ MouseDown
    \/ MouseMove
    \/ MouseUp
    \/ DeviceMotion
    \/ SwitchMode
    \/ Reset
    \/ SetStiffness
    \/ SetDamping
    \/ Loop

Spec == Init /\ [][Next]_vars

----------------------------------------------------------------------------
(* One control point under repeated applyPhysics calls *)

PointPositions == {Pixel(320, 150), Pixel(120, 150)}

PointTargets == {Pixel(320, 150), Pixel(500, 200)}

\* in micro-pixels per second
PointVelocities == {Vector2(0, 0), Vector2(30 * Unit, -40 * Unit)}

PointStiffness == {8, 30}

PointDamping == {0, 92}

PointDts == {DtDen \div 60, DtDen \div 30}

InitPoint ==
    /\ InitApp
    /\ \E p \in PointPositions, v \in PointVelocities, t \in PointTargets,
          f \in BOOLEAN, d \in BOOLEAN :
            pt = [position |-> p, velocity |-> v, target |-> t,
                  isFixed |-> f, isDragging |-> d]
    /\ \E k \in PointStiffness, c \in PointDamping, dt \in PointDts :
            args = [stiffness |-> k, damping |-> c, dt |-> dt]
    /\ steps = 0
    /\ nearest = distanceTo(pt.position, pt.target)

Step(bound) ==
    /\ steps < bound
    /\ pt' = applyPhysics(pt, args.stiffness, args.damping, args.dt)
    /\ steps' = steps + 1
    /\ nearest' = Min(nearest, distanceTo(pt'.position, pt'.target))
    /\ UNCHANGED args
    /\ UNCHANGED appVars

StepPoint == Step(MaxSteps)

SpecPoint == InitPoint /\ [][StepPoint]_vars

\* A free point at rest, 200 pixels from its target, stepped with the
\* application's first stiffness and damping at 60 frames per second
Displacements == {Pixel(200, 0), Pixel(-200, 0), Pixel(0, 200), Pixel(0, -200),
                  Pixel(120, 160)}

InitConverge ==
    /\ InitApp
    /\ \E d \in Displacements :
            pt = [position |-> subtract(Pixel(320, 150), d), velocity |-> Vector2(0, 0),
                  target |-> Pixel(320, 150), isFixed |-> FALSE, isDragging |-> FALSE]
    /\ args = [stiffness |-> 8, damping |-> 92, dt |-> DtDen \div 60]
    /\ steps = 0
    /\ nearest = distanceTo(pt.position, pt.target)

StepConverge == Step(MaxConvergeSteps)

SpecConverge == InitConverge /\ [][StepConverge]_vars

----------------------------------------------------------------------------
(* Properties *)

Distance == distanceTo(pt.position, pt.target)

Free(cp) == ~cp.isFixed /\ ~cp.isDragging

AtRest(cp) == cp.position = cp.target /\ cp.velocity = Vector2(0, 0)

InBounds(v) ==
    /\ Px(margin) <= v.x /\ v.x <= Px(width - margin)
    /\ Px(margin) <= v.y /\ v.y <= Px(height - margin)

Targets(ps) == <<ps[1].target, ps[2].target>>

\* A step of the ambient steering: the pointer branch of mouseMove, or
\* handleMotion past its two guards
Steered ==
    \/ dragged = null /\ mode = "mouse" /\ MouseMove
    \/ mode = "motion" /\ \E r \in RotationRates \ {<<>>} : DeviceMotionWith(r)

\* The dragged point is held under the pointer
Held ==
    /\ dragged # null
    /\ points[dragged].isDragging
    /\ points[dragged].position = mousePos
    /\ points[dragged].target = mousePos
    /\ points[dragged].velocity = Vector2(0, 0)

\* C1: applyPhysics on a point that is fixed or dragged leaves its position,
\* velocity and target (the whole point) as they were, whatever the stiffness,
\* damping and dt.
C1_Suspension == [][(pt.isFixed \/ pt.isDragging) => pt' = pt]_vars

\* A dragged, not fixed point away from its target and moving has been stepped.
C1_Witness ==
    /\ steps > 0
    /\ pt.isDragging /\ ~pt.isFixed
    /\ pt.position # pt.target
    /\ pt.velocity # Vector2(0, 0)

\* C2: in every reachable state p0 and p3 are where the constructor put them,
\* neither has isDragging set and neither is the dragged point.
C2_FixedEndpoints ==
    \A i \in {0, 3} :
        /\ points[i].isFixed
        /\ points[i].position = InitialPoints[i].position
        /\ ~points[i].isDragging
        /\ dragged # i

\* The pointer is on p0, p1 is being dragged and a frame has been drawn.
C2_Witness ==
    /\ mousePos = InitialPoints[0].position
    /\ dragged = 1
    /\ points[1].position = points[0].position
    /\ frame.count > 0

\* C3: right after every ambient steering update the targets of p1 and p2 lie
\* in [margin, width - margin] x [margin, height - margin].
C3_TargetClamping ==
    [][Steered => InBounds(points'[1].target) /\ InBounds(points'[2].target)]_vars

\* A rotation of 150 degrees per second on both axes has driven both targets
\* into opposite corners of the clamping rectangle.
C3_Witness ==
    /\ mode = "motion"
    /\ points[1].target = Pixel(width - margin, margin)
    /\ points[2].target = Pixel(margin, height - margin)

\* C4: while a point is dragged, no ambient event changes the target of p1 or
\* p2: a devicemotion event changes neither, and a mousemove changes only the
\* dragged point's.
C4_AmbientOnlyWhenNotDragged ==
    [][dragged # null =>
        /\ DeviceMotion => Targets(points') = Targets(points)
        /\ MouseMove => \A i \in {1, 2} \ {dragged} :
                            points'[i].target = points[i].target]_vars

\* C5: a press on an interior point sets its isDragging; each pointer move
\* during the drag puts the point under the pointer, at rest; and frames, device
\* motion, mode switches and slider changes leave it so.
C5_DragHold ==
    [][/\ (MouseDown /\ dragged' # dragged) => points'[dragged'].isDragging
       /\ (MouseMove /\ dragged # null) => Held'
       /\ (Held /\ (Loop \/ DeviceMotion \/ SwitchMode \/ SetStiffness \/ SetDamping))
            => Held']_vars

\* C6 as stated: the point comes within 1 pixel of its target in fewer than 300
\* steps, and is never farther from it than the 200 pixels it started at.
C6_ConvergesIn300 ==
    /\ Distance <= Px(200)
    /\ steps >= 299 => nearest <= Px(1)

\* C6 as amended: the point comes within 1 pixel of its target in fewer than
\* 6000 steps, after 300 steps it is still more than 150 pixels away, and it is
\* never farther from the target than the 200 pixels it started at.
C6_ConvergesIn6000 ==
    /\ Distance <= Px(200)
    /\ steps <= 300 => nearest > Px(150)
    /\ steps >= 5999 => nearest <= Px(1)

\* The point has come within 1 pixel of its target, in fewer than 6000 steps.
C6_Witness ==
    /\ steps < 6000
    /\ Distance <= Px(1)
    /\ pt.position # pt.target

\* C7: a free point at its target with no velocity is left as it was by
\* applyPhysics, whatever the stiffness, damping and dt.
C7_Equilibrium == [][(Free(pt) /\ AtRest(pt)) => pt' = pt]_vars

\* p1 at (320,150) with target (320,150), after 600 steps at dt = 1/60.
C7_Witness ==
    /\ steps = 600
    /\ args.dt = DtDen \div 60
    /\ Free(pt)
    /\ pt.position = Pixel(320, 150)
    /\ pt.target = Pixel(320, 150)
    /\ pt.velocity = Vector2(0, 0)

\* C8: the dt of every frame is at most 1/30 s; it is 1/60 s on the first
\* frame and the time since the previous frame's timestamp, capped at 1/30 s,
\* on every later one.
C8_Timestep ==
    frame.count > 0 =>
        /\ frame.dt <= DtDen \div 30
        /\ frame.count = 1 => frame.dt = DtDen \div 60
        /\ frame.count > 1 =>
                frame.dt = Min((frame.timestamp - frame.previous) * 3, DtDen \div 30)

\* C9: whenever a frame has drawn, the polyline on the canvas has
\* segments + 1 = 101 points, point i being calculatePoint(i/100) of the
\* control-point positions drawn with it (the positions after that frame's
\* physics update), from p0's position to p3's, and there are 11 tangent markers,
\* at the sample indices 0, 10, ..., 100.
C9_RenderFresh ==
    frame.count > 0 =>
        /\ Len(canvas.polyline) = segments + 1
        /\ canvas.polyline = updateCurve(canvas.handles)
        /\ canvas.polyline[1] = canvas.handles[0].position
        /\ canvas.polyline[segments + 1] = canvas.handles[3].position
        /\ Len(canvas.arrows) = 11
        /\ \A k \in 1..Len(canvas.arrows) :
                canvas.arrows[k].point = canvas.polyline[10 * (k - 1) + 1]

\* A frame has been drawn after the physics moved p1 and p2.
C9_Witness ==
    /\ frame.count > 0
    /\ canvas.handles[1].position # InitialPoints[1].position
    /\ canvas.handles[2].position # InitialPoints[2].position
    /\ canvas.handles[1].position = points[1].position

\* C10: a control point has isDragging set exactly when it is the dragged
\* point; so at most one has, and none after a release or a reset.
C10_DragFlag == \A i \in 0..3 : points[i].isDragging <=> dragged = i

====
